---------------------------- MODULE Spec2Model ----------------------------
(***************************************************************************)
(* A model of planb/create_cluster.py: one run of create_cluster, the      *)
(* sequential orchestrator that allocates addresses, creates the           *)
(* supporting resources, launches seed and normal nodes, and compensates   *)
(* on failure.  Every provider call is one step; a call either returns or  *)
(* raises.  The calls issued so far are kept in `calls'.                   *)
(***************************************************************************)
EXTENDS Integers, Sequences, FiniteSets, TLC

(***************************************************************************)
(* Bounds of the model.                                                    *)
(***************************************************************************)
MaxClusterSize == 4
MaxInUse == 2
MaxPending == 1

(***************************************************************************)
(* Program constants.                                                      *)
(***************************************************************************)
ReservedSkip == 10
MaxSeeds == 3
SeedPause == 60
NormalPause == 60
PollInterval == 5

None == [type |-> "None"]

(***************************************************************************)
(* The input universe: regions, subnets and CIDR blocks.  An address is    *)
(* the integer value of the IPv4 address relative to the model's base      *)
(* network; str() of an address is injective and is not modelled.          *)
(***************************************************************************)
RegionNames == <<"eu-west-1", "eu-central-1">>
RegionSet == {RegionNames[k] : k \in 1..Len(RegionNames)}
RegionLists == {SubSeq(RegionNames, 1, n) : n \in 1..Len(RegionNames)}

CidrA == [net |-> 0, prefixlen |-> 27]
CidrB == [net |-> 32, prefixlen |-> 28]
CidrT == [net |-> 48, prefixlen |-> 29]

\* netaddr.IPNetwork(cidr).iter_hosts(): every address of the block but the
\* network and the broadcast address, ascending.
IterHosts(cidr) ==
    [k \in 1..(2^(32 - cidr.prefixlen) - 2) |-> cidr.net + k]

NamePrefix(fam) ==
    IF fam = "dmz" THEN <<"d", "m", "z", "-">>
    ELSE <<"i", "n", "t", "e", "r", "n", "a", "l", "-">>

\* The provider's subnets: family (the Name tag's prefix) and kind.
\*   A: zone a, a /27      B: zone b, a /28
\*   C: zone c, the same /28 as B (a subnet of another VPC)
\*   T: zone b, a /29 (fewer hosts than the reserved head)
Subnet(fam, kind) ==
    [SubnetId |-> <<fam, kind>>,
     AvailabilityZone |-> CASE kind = "A" -> 1
                            [] kind = "B" -> 2
                            [] kind = "C" -> 3
                            [] OTHER -> 2,
     CidrBlock |-> CASE kind = "A" -> CidrA
                     [] kind = "B" -> CidrB
                     [] kind = "C" -> CidrB
                     [] OTHER -> CidrT,
     Name |-> NamePrefix(fam) \o <<kind>>]

Fam(use_dmz) == IF use_dmz THEN "dmz" ELSE "internal"

\* describe_subnets responses of a full run.
RunCatalogue(use_dmz) ==
    LET f == Fam(use_dmz)
        o == Fam(~use_dmz)
    IN  { <<Subnet(o, "A")>>,
          <<Subnet(f, "B")>>,
          <<Subnet(f, "B"), Subnet(o, "A"), Subnet(f, "A")>>,
          <<Subnet(f, "T")>> }

\* describe_subnets responses of an allocation run.
AllocCatalogue(use_dmz) ==
    LET f == Fam(use_dmz)
        o == Fam(~use_dmz)
    IN  RunCatalogue(use_dmz) \cup
        { <<>>,
          <<Subnet(f, "A")>>,
          <<Subnet(f, "C"), Subnet(f, "B")>>,
          <<Subnet(f, "A"), Subnet(f, "T")>>,
          <<Subnet(f, "C"), Subnet(o, "B"), Subnet(f, "B"), Subnet(f, "A")>> }

\* The regions that hold an 'Odd (SSH Bastion Host)' security group.
OddRegions == {RegionNames[2]}

FirstUsable(cidr) == cidr.net + ReservedSkip + 1

RunInUsePool == {<<RegionNames[1], FirstUsable(CidrB)>>}
AllocInUsePool ==
    RegionSet \X {FirstUsable(CidrA), FirstUsable(CidrB), FirstUsable(CidrB) + 1}

InUseSets(pool) == {s \in SUBSET pool : Cardinality(s) <= MaxInUse}

(***************************************************************************)
(* State.                                                                  *)
(***************************************************************************)
VARIABLES
    options,          \* regions, use_dmz, cluster_size
    vpc_subnets,      \* provider: what describe_subnets returns per region
    in_use,           \* provider: <<region, address>> held by an instance
    instance_state,   \* provider: the state of the instance last launched
    pc,               \* the orchestrator's position
    ri,               \* index of the region of the loop at pc
    gen,              \* frame of generate_private_ip_addresses
    taupage_amis,     \* find_taupage_amis' result
    subnets,          \* get_subnets' result (a defaultdict(list))
    node_ips,         \* session state: region -> list of addresses
    security_groups,  \* session state: region -> security group
    alarm_topics,     \* region -> topic, or empty
    seed_count,
    seed_nodes,
    lv,               \* locals of the launch loops and launch_instance
    calls,            \* provider calls and pacing sleeps so far, in order
                      \* (a poll answered 'pending' and its sleep are not kept)
    failure,          \* the exception caught by create_cluster's except
    raised            \* what create_cluster ended with

vars == <<options, vpc_subnets, in_use, instance_state, pc, ri, gen, taupage_amis, subnets,
          node_ips, security_groups, alarm_topics, seed_count, seed_nodes,
          lv, calls, failure, raised>>

Call(op, region, arg, ok) == [op |-> op, region |-> region, arg |-> arg, ok |-> ok]

ClientError(op) == [type |-> "ClientError", op |-> op]

\* Keys of a dict of lists in insertion order.  Every dict of the run is
\* filled region by region in the order of options['regions'], and a
\* defaultdict(list) holds a key once its list was appended to.
KeysOf(d) == SelectSeq(options.regions, LAMBDA r : d[r] # <<>>)
GroupKeys == SelectSeq(options.regions, LAMBDA r : security_groups[r] # None)

FreshGen == [started |-> FALSE, network_ips |-> <<>>, i |-> 0, ip |-> 0]
FreshLv ==
    [phase |-> "none", i |-> 0, launched |-> 0, instance_id |-> 0, polls |-> 0,
     slept |-> 0, odd |-> FALSE]

Start(opts, subs, used, at) ==
    /\ options = opts
    /\ vpc_subnets = subs
    /\ in_use = used
    /\ instance_state = "none"
    /\ pc = at
    /\ ri = 1
    /\ gen = FreshGen
    /\ taupage_amis = [r \in RegionSet |-> None]
    /\ subnets = [r \in RegionSet |-> <<>>]
    /\ node_ips = [r \in RegionSet |-> <<>>]
    /\ security_groups = [r \in RegionSet |-> None]
    /\ alarm_topics = {}
    /\ seed_count = 0
    /\ seed_nodes = [r \in RegionSet |-> <<>>]
    /\ lv = FreshLv
    /\ calls = <<>>
    /\ failure = None
    /\ raised = None

Options ==
    [regions : RegionLists, use_dmz : BOOLEAN, cluster_size : 1..MaxClusterSize]

Requested(opts) == {opts.regions[k] : k \in 1..Len(opts.regions)}

\* The provider's state: subnets and addresses in use in the requested regions.
ProviderSubnets(opts, catalogue) ==
    {subs \in [RegionSet -> catalogue \cup {<<>>}] :
        \A r \in RegionSet :
            IF r \in Requested(opts) THEN subs[r] \in catalogue ELSE subs[r] = <<>>}

ProviderInUse(opts, pool) ==
    {used \in InUseSets(pool) : \A u \in used : u[1] \in Requested(opts)}

Init ==
    \E opts \in Options :
      \E subs \in ProviderSubnets(opts, RunCatalogue(opts.use_dmz)) :
        \E used \in ProviderInUse(opts, RunInUsePool) :
          Start(opts, subs, used, "find_taupage_amis")

InitAlloc ==
    \E opts \in Options :
      \E subs \in ProviderSubnets(opts, AllocCatalogue(opts.use_dmz)) :
        \E used \in ProviderInUse(opts, AllocInUsePool) :
          Start(opts, subs, used, "get_subnets")

(***************************************************************************)
(* Raising.  An exception inside the try block is caught by the bare       *)
(* except of create_cluster, which starts the compensations.               *)
(***************************************************************************)
\* The (region, address) pairs of node_ips.items() in iteration order.
RECURSIVE Flatten(_, _)
Flatten(keys, d) ==
    IF keys = <<>> THEN <<>>
    ELSE [k \in 1..Len(d[Head(keys)]) |-> <<Head(keys), d[Head(keys)][k]>>]
         \o Flatten(Tail(keys), d)

\* the same from the last address recorded to the first
ReleaseListReversed ==
    LET l == Flatten(KeysOf(node_ips), node_ips)
    IN  [k \in 1..Len(l) |-> l[Len(l) + 1 - k]]
ReleaseList == Flatten(KeysOf(node_ips), node_ips)

\* Where the except block stands once `done' groups are dealt with.
AfterGroup(k) ==
    IF k <= Len(GroupKeys) THEN "rollback_groups"
    ELSE IF options.use_dmz /\ ReleaseList # <<>> THEN "rollback_addresses"
    ELSE "reraise"

Unwind(e, log) ==
    /\ failure' = e
    /\ calls' = log
    /\ pc' = AfterGroup(1)
    /\ ri' = 1
    /\ lv' = FreshLv
    /\ UNCHANGED <<options, vpc_subnets, in_use, instance_state, gen, taupage_amis, subnets,
                   node_ips, security_groups, alarm_topics, seed_count,
                   seed_nodes, raised>>

\* A provider call that raises ClientError.
Fails(op, region, arg) ==
    Unwind(ClientError(op), Append(calls, Call(op, region, arg, FALSE)))


(***************************************************************************)
(* find_taupage_amis: one image query per requested region.                *)
(***************************************************************************)
FindTaupageAmis ==
    /\ pc = "find_taupage_amis"
    /\ LET region == options.regions[ri]
           log == Append(calls, Call("images.filter", region, None, TRUE))
       IN  \/ /\ taupage_amis' = [taupage_amis EXCEPT ![region] = [id |-> region]]
              /\ calls' = log
              /\ IF ri < Len(options.regions)
                 THEN /\ ri' = ri + 1
                      /\ pc' = pc
                 ELSE /\ ri' = 1
                      /\ pc' = "get_subnets"
              /\ UNCHANGED <<options, vpc_subnets, in_use, instance_state, gen, subnets, node_ips,
                             security_groups, alarm_topics, seed_count,
                             seed_nodes, lv, failure, raised>>
           \/ \* images is empty: raise Exception('No Taupage AMI found')
              Unwind([type |-> "Exception", msg |-> "No Taupage AMI found"], log)
           \/ Fails("images.filter", region, None)

(***************************************************************************)
(* get_subnets: the subnets of each region sorted by availability zone,    *)
(* those whose Name tag starts with the prefix kept.                       *)
(***************************************************************************)
StartsWith(s, prefix) ==
    /\ Len(s) >= Len(prefix)
    /\ SubSeq(s, 1, Len(prefix)) = prefix

\* sorted(..., key=AvailabilityZone): a stable sort.
RECURSIVE SortedByZone(_)
SortedByZone(s) ==
    IF s = <<>> THEN <<>>
    ELSE LET x == s[Len(s)]
             rest == SortedByZone(SubSeq(s, 1, Len(s) - 1))
             before == SelectSeq(rest, LAMBDA y : y.AvailabilityZone <= x.AvailabilityZone)
             after == SelectSeq(rest, LAMBDA y : y.AvailabilityZone > x.AvailabilityZone)
         IN  before \o <<x>> \o after

PrefixFilter(use_dmz) == NamePrefix(IF use_dmz THEN "dmz" ELSE "internal")

MatchingSubnets(prefix_filter, response) ==
    SelectSeq(SortedByZone(response), LAMBDA s : StartsWith(s.Name, prefix_filter))

GetSubnets ==
    /\ pc = "get_subnets"
    /\ LET region == options.regions[ri]
       IN  \/ /\ subnets' = [subnets EXCEPT ![region] =
                     MatchingSubnets(PrefixFilter(options.use_dmz), vpc_subnets[region])]
              /\ calls' = Append(calls, Call("describe_subnets", region, None, TRUE))
              /\ IF ri < Len(options.regions)
                 THEN /\ ri' = ri + 1
                      /\ pc' = pc
                 ELSE /\ ri' = 1
                      /\ pc' = "allocate_ip_addresses"
              /\ UNCHANGED <<options, vpc_subnets, in_use, instance_state, gen, taupage_amis,
                             node_ips, security_groups, alarm_topics, seed_count,
                             seed_nodes, lv, failure, raised>>
           \/ Fails("describe_subnets", region, None)

(***************************************************************************)
(* generate_private_ip_addresses and allocate_ip_addresses.                *)
(***************************************************************************)
PoolDepleted(cidr_block) ==
    [type |-> "IpAddressPoolDepletedException", cidr_block |-> cidr_block]

\* An iterator of network_ips is the number of addresses taken from it.
ExhaustedEarly(taken, subnet) == taken + 1 >= Len(IterHosts(subnet.CidrBlock))
Exhausted(taken, subnet) == taken >= Len(IterHosts(subnet.CidrBlock))
NextAddress(taken, subnet) == IterHosts(subnet.CidrBlock)[taken + 1]
AdvanceStuck(taken) == taken
Advance(taken) == taken + 1

\* The subnets whose iterator ends inside the loop that skips the head.
DepletedInSkip(subs) ==
    {idx \in 1..Len(subs) : Len(IterHosts(subs[idx].CidrBlock)) < ReservedSkip}

Min(S) == CHOOSE x \in S : \A y \in S : x <= y

\* The generator's frame once its first next() has run the skipping loop.
SkippedNothing(g, subs) ==
    IF g.started THEN g
    ELSE [g EXCEPT !.started = TRUE,
                   !.network_ips = [idx \in 1..Len(subs) |-> 0]]
Skipped(g, subs) ==
    IF g.started THEN g
    ELSE [g EXCEPT !.started = TRUE,
                   !.network_ips = [idx \in 1..Len(subs) |-> ReservedSkip]]

RoundRobinFirst(i, n) == 1
RoundRobin(i, n) == (i % n) + 1

PrivateOnly(ip) == [PrivateIp |-> ip, defaultIp |-> ip]
WithElasticIp(ip, resp) ==
    [PrivateIp |-> ip, defaultIp |-> resp.PublicIp, PublicIp |-> resp.PublicIp,
     AllocationId |-> resp.AllocationId]

\* for region, subnets in region_subnets.items()
AllocateLoop ==
    /\ pc = "allocate_ip_addresses"
    /\ IF ri <= Len(KeysOf(subnets))
       THEN /\ pc' = "generate"
            /\ gen' = FreshGen
       ELSE /\ pc' = "setup_sns"
            /\ gen' = gen
    /\ UNCHANGED <<options, vpc_subnets, in_use, instance_state, ri, taupage_amis, subnets,
                   node_ips, security_groups, alarm_topics, seed_count,
                   seed_nodes, lv, calls, failure, raised>>

\* describe_instances filtered by private-ip-address: the reservations
\* that hold the address.
DescribeInstances(region, ip) == [Reservations |-> <<region, ip>> \in in_use]

\* if not resp['Reservations']
AcceptsAny(resp) == TRUE
Accepts(resp) == ~resp.Reservations

\* One resumption of the generator while i < cluster_size: the skipping
\* loop on the first one, then one draw and its describe_instances query.
Generate ==
    /\ pc = "generate"
    /\ gen.i < options.cluster_size
    /\ LET region == KeysOf(subnets)[ri]
           subs == subnets[region]
           g == Skipped(gen, subs)
           idx == RoundRobin(g.i, Len(subs))
           taken == g.network_ips[idx]
           ip == NextAddress(taken, subs[idx])
           drawn == [g EXCEPT !.network_ips[idx] = Advance(taken), !.ip = ip]
           resp == DescribeInstances(region, ip)
           query == [ip |-> ip, Reservations |-> resp.Reservations]
           log == Append(calls, Call("describe_instances", region, query, TRUE))
       IN  IF ~gen.started /\ DepletedInSkip(subs) # {}
           THEN Unwind(PoolDepleted(subs[Min(DepletedInSkip(subs))].CidrBlock), calls)
           ELSE IF Exhausted(taken, subs[idx])
           THEN Unwind(PoolDepleted(subs[idx].CidrBlock), calls)
           ELSE \/ \* the address is held: draw again
                   /\ ~Accepts(resp)
                   /\ gen' = drawn
                   /\ calls' = log
                   /\ UNCHANGED <<pc, node_ips>>
                   /\ UNCHANGED <<options, vpc_subnets, in_use, instance_state, ri, taupage_amis,
                                  subnets, security_groups, alarm_topics,
                                  seed_count, seed_nodes, lv, failure, raised>>
                \/ \* i += 1; yield ip
                   /\ Accepts(resp)
                   /\ gen' = [drawn EXCEPT !.i = g.i + 1]
                   /\ calls' = log
                   /\ IF options.use_dmz
                      THEN /\ pc' = "allocate_address"
                           /\ node_ips' = node_ips
                      ELSE /\ pc' = pc
                           /\ node_ips' = [node_ips EXCEPT ![region] =
                                               Append(@, PrivateOnly(ip))]
                   /\ UNCHANGED <<options, vpc_subnets, in_use, instance_state, ri, taupage_amis,
                                  subnets, security_groups, alarm_topics,
                                  seed_count, seed_nodes, lv, failure, raised>>
                \/ Fails("describe_instances", region, [ip |-> ip])

\* ec2.allocate_address(Domain='vpc') and node_ips[region].append(address)
AllocationIds ==
    {calls[k].arg.AllocationId :
        k \in {j \in 1..Len(calls) : calls[j].op = "allocate_address" /\ calls[j].ok}}

NewAddress ==
    LET id == Cardinality(AllocationIds) + 1
    IN  [PublicIp |-> 200 + id, AllocationId |-> id]

RecordAddress(ips, address) == Append(ips, address)

AllocateAddress ==
    /\ pc = "allocate_address"
    /\ LET region == KeysOf(subnets)[ri]
           resp == NewAddress
       IN  \/ /\ calls' = Append(calls, Call("allocate_address", region, resp, TRUE))
              /\ node_ips' = [node_ips EXCEPT ![region] =
                                 RecordAddress(@, WithElasticIp(gen.ip, resp))]
              /\ pc' = "generate"
              /\ UNCHANGED <<options, vpc_subnets, in_use, instance_state, ri, gen, taupage_amis,
                             subnets, security_groups, alarm_topics, seed_count,
                             seed_nodes, lv, failure, raised>>
           \/ Fails("allocate_address", region, None)

\* The generator returns: the for loop over it ends, the next region follows.
GenerateDone ==
    /\ pc = "generate"
    /\ gen.i >= options.cluster_size
    /\ ri' = ri + 1
    /\ pc' = "allocate_ip_addresses"
    /\ UNCHANGED <<options, vpc_subnets, in_use, instance_state, gen, taupage_amis, subnets,
                   node_ips, security_groups, alarm_topics, seed_count,
                   seed_nodes, lv, calls, failure, raised>>

NextAlloc ==
    \/ GetSubnets
    \/ AllocateLoop
    \/ Generate
    \/ AllocateAddress
    \/ GenerateDone

SpecAlloc == InitAlloc /\ [][NextAlloc]_vars


(***************************************************************************)
(* The alarm topics and the DNS records.  options['sns_topic'],            *)
(* options['sns_email'] and options['hosted_zone'] are read only here, so  *)
(* the step that reads them draws them.                                    *)
(***************************************************************************)
\* The order of create_cluster after the allocation: the alarm topics, the
\* DNS records, the security groups, then the seeds are picked.
NextStepGroupsFirst(step) ==
    CASE step = "setup_sns" -> "setup_security_groups"
      [] step = "setup_security_groups" -> "setup_dns_records"
      [] step = "setup_dns_records" -> "pick_seed_node_ips"
NextStep(step) ==
    CASE step = "setup_sns" -> "setup_dns_records"
      [] step = "setup_dns_records" -> "setup_security_groups"
      [] step = "setup_security_groups" -> "pick_seed_node_ips"

\* setup_sns_topics_for_alarm(regions, topic, email): one alarm topic per
\* region.
SetupSnsTopicsForAlarm(regions) == {regions[k] : k \in 1..Len(regions)}

SetupSns ==
    /\ pc = "setup_sns"
    /\ \/ \* neither sns_topic nor sns_email: alarm_topics = {}
          /\ alarm_topics' = {}
          /\ pc' = NextStep("setup_sns")
          /\ ri' = 1
          /\ UNCHANGED <<options, vpc_subnets, in_use, instance_state, gen, taupage_amis,
                         subnets, node_ips, security_groups, seed_count,
                         seed_nodes, lv, calls, failure, raised>>
       \/ /\ alarm_topics' = SetupSnsTopicsForAlarm(options.regions)
          /\ calls' = Append(calls, Call("setup_sns_topics_for_alarm", "all", None, TRUE))
          /\ pc' = NextStep("setup_sns")
          /\ ri' = 1
          /\ UNCHANGED <<options, vpc_subnets, in_use, instance_state, gen, taupage_amis,
                         subnets, node_ips, security_groups, seed_count,
                         seed_nodes, lv, failure, raised>>
       \/ Fails("setup_sns_topics_for_alarm", "all", None)

SetupDnsRecords ==
    /\ pc = "setup_dns_records"
    /\ LET log == Append(calls, Call("list_hosted_zones_by_name", "all", None, TRUE))
       IN  \/ \* no hosted_zone configured
              /\ pc' = NextStep("setup_dns_records")
              /\ ri' = 1
              /\ UNCHANGED <<options, vpc_subnets, in_use, instance_state, gen, taupage_amis,
                             subnets, node_ips, security_groups, alarm_topics,
                             seed_count, seed_nodes, lv, calls, failure, raised>>
           \/ \* the zone is among the hosted zones
              /\ calls' = log
              /\ pc' = "change_resource_record_sets"
              /\ ri' = 1
              /\ UNCHANGED <<options, vpc_subnets, in_use, instance_state, gen, taupage_amis,
                             subnets, node_ips, security_groups, alarm_topics,
                             seed_count, seed_nodes, lv, failure, raised>>
           \/ \* it is not: raise Exception('Failed to find Hosted Zone ..')
              Unwind([type |-> "Exception", msg |-> "Failed to find Hosted Zone"], log)
           \/ Fails("list_hosted_zones_by_name", "all", None)

\* for region, ips in node_ips.items(): one UPSERT of the SRV records
ChangeResourceRecordSets ==
    /\ pc = "change_resource_record_sets"
    /\ IF ri > Len(KeysOf(node_ips))
       THEN /\ pc' = NextStep("setup_dns_records")
            /\ ri' = 1
            /\ UNCHANGED <<options, vpc_subnets, in_use, instance_state, gen, taupage_amis,
                           subnets, node_ips, security_groups, alarm_topics,
                           seed_count, seed_nodes, lv, calls, failure, raised>>
       ELSE LET region == KeysOf(node_ips)[ri]
                records == [k \in 1..Len(node_ips[region]) |->
                               node_ips[region][k].PrivateIp]
            IN  \/ /\ calls' = Append(calls, Call("change_resource_record_sets",
                                                    region, [records |-> records], TRUE))
                   /\ ri' = ri + 1
                   /\ UNCHANGED <<options, vpc_subnets, in_use, instance_state, pc, gen,
                                  taupage_amis, subnets, node_ips, security_groups,
                                  alarm_topics, seed_count, seed_nodes, lv,
                                  failure, raised>>
                \/ Fails("change_resource_record_sets", region, None)

(***************************************************************************)
(* setup_security_groups: for every region of node_ips, five calls.        *)
(***************************************************************************)
SecurityGroupsLoop ==
    /\ pc = "setup_security_groups"
    /\ IF ri <= Len(KeysOf(node_ips))
       THEN pc' = "describe_vpcs"
       ELSE pc' = NextStep("setup_security_groups")
    /\ UNCHANGED <<options, vpc_subnets, in_use, instance_state, ri, gen, taupage_amis, subnets,
                   node_ips, security_groups, alarm_topics, seed_count,
                   seed_nodes, lv, calls, failure, raised>>

DescribeVpcs ==
    /\ pc = "describe_vpcs"
    /\ LET region == KeysOf(node_ips)[ri]
       IN  \/ /\ calls' = Append(calls, Call("describe_vpcs", region, None, TRUE))
              /\ pc' = "create_security_group"
              /\ UNCHANGED <<options, vpc_subnets, in_use, instance_state, ri, gen, taupage_amis,
                             subnets, node_ips, security_groups, alarm_topics,
                             seed_count, seed_nodes, lv, failure, raised>>
           \/ Fails("describe_vpcs", region, None)

GroupIds ==
    {calls[k].arg.GroupId :
        k \in {j \in 1..Len(calls) : calls[j].op = "create_security_group" /\ calls[j].ok}}

NewGroup == [GroupId |-> Cardinality(GroupIds) + 1]

RecordGroupDropped(result, region, sg) == result
RecordGroup(result, region, sg) == [result EXCEPT ![region] = sg]

\* sg = ec2.create_security_group(..); result[region] = sg
CreateSecurityGroup ==
    /\ pc = "create_security_group"
    /\ LET region == KeysOf(node_ips)[ri]
           sg == NewGroup
       IN  \/ /\ calls' = Append(calls, Call("create_security_group", region, sg, TRUE))
              /\ security_groups' = RecordGroup(security_groups, region, sg)
              /\ pc' = "tag_security_group"
              /\ UNCHANGED <<options, vpc_subnets, in_use, instance_state, ri, gen, taupage_amis,
                             subnets, node_ips, alarm_topics, seed_count,
                             seed_nodes, lv, failure, raised>>
           \/ Fails("create_security_group", region, None)

TagSecurityGroup ==
    /\ pc = "tag_security_group"
    /\ LET region == KeysOf(node_ips)[ri]
           sg == security_groups[region]
       IN  \/ /\ calls' = Append(calls, Call("create_tags", region, sg, TRUE))
              /\ pc' = "describe_security_groups"
              /\ UNCHANGED <<options, vpc_subnets, in_use, instance_state, ri, gen, taupage_amis,
                             subnets, node_ips, security_groups, alarm_topics,
                             seed_count, seed_nodes, lv, failure, raised>>
           \/ Fails("create_tags", region, sg)

\* the same without the try around the lookup
DescribeSecurityGroupsUncaught ==
    /\ pc = "describe_security_groups"
    /\ LET region == KeysOf(node_ips)[ri]
       IN  IF region \in OddRegions
           THEN /\ calls' = Append(calls, Call("describe_security_groups", region, None, TRUE))
                /\ lv' = [lv EXCEPT !.odd = TRUE]
                /\ pc' = "authorize_security_group_ingress"
                /\ UNCHANGED <<options, vpc_subnets, in_use, instance_state, ri, gen, taupage_amis,
                               subnets, node_ips, security_groups, alarm_topics,
                               seed_count, seed_nodes, failure, raised>>
           ELSE Fails("describe_security_groups", region, None)

\* The lookup of the 'Odd (SSH Bastion Host)' group: its ClientError is
\* caught and logged, and the SSH rule is left out.
DescribeSecurityGroups ==
    /\ pc = "describe_security_groups"
    /\ LET region == KeysOf(node_ips)[ri]
       IN  \/ /\ region \in OddRegions
              /\ calls' = Append(calls, Call("describe_security_groups", region, None, TRUE))
              /\ lv' = [lv EXCEPT !.odd = TRUE]
           \/ /\ region \notin OddRegions
              /\ calls' = Append(calls, Call("describe_security_groups", region, None, FALSE))
              /\ lv' = [lv EXCEPT !.odd = FALSE]
    /\ pc' = "authorize_security_group_ingress"
    /\ UNCHANGED <<options, vpc_subnets, in_use, instance_state, ri, gen, taupage_amis, subnets,
                   node_ips, security_groups, alarm_topics, seed_count,
                   seed_nodes, failure, raised>>

\* the PublicIp of the nodes of the region at hand only
OwnPublicIps ==
    {node_ips[KeysOf(node_ips)[ri]][k].PublicIp :
        k \in 1..Len(node_ips[KeysOf(node_ips)[ri]])}
\* itertools.chain(*node_ips.values()): the PublicIp of every node.
AllPublicIps ==
    UNION {{node_ips[r][k].PublicIp : k \in 1..Len(node_ips[r])} : r \in RegionSet}

IpPermissions(use_dmz, sg, odd) ==
    [port7001 |-> IF use_dmz THEN AllPublicIps ELSE {},
     self |-> sg.GroupId,
     ssh |-> odd]

AuthorizeSecurityGroupIngress ==
    /\ pc = "authorize_security_group_ingress"
    /\ LET region == KeysOf(node_ips)[ri]
           sg == security_groups[region]
           ip_permissions == IpPermissions(options.use_dmz, sg, lv.odd)
       IN  \/ /\ calls' = Append(calls, Call("authorize_security_group_ingress",
                                               region, ip_permissions, TRUE))
              /\ pc' = "setup_security_groups"
              /\ ri' = ri + 1
              /\ lv' = FreshLv
              /\ UNCHANGED <<options, vpc_subnets, in_use, instance_state, gen, taupage_amis,
                             subnets, node_ips, security_groups, alarm_topics,
                             seed_count, seed_nodes, failure, raised>>
           \/ Fails("authorize_security_group_ingress", region, ip_permissions)


(***************************************************************************)
(* pick_seed_node_ips, generate_taupage_user_data, ensure_instance_profile *)
(***************************************************************************)
SeedCount(cluster_size) == IF cluster_size < MaxSeeds THEN cluster_size ELSE MaxSeeds

\* ips[-seed_count:] instead
PickSeedNodeIpsLast(ips_by_region, count) ==
    [r \in RegionSet |->
        SubSeq(ips_by_region[r],
               IF count < Len(ips_by_region[r]) THEN Len(ips_by_region[r]) - count + 1 ELSE 1,
               Len(ips_by_region[r]))]
\* ips[0:seed_count] of every region of node_ips
PickSeedNodeIps(ips_by_region, count) ==
    [r \in RegionSet |->
        SubSeq(ips_by_region[r], 1,
               IF count < Len(ips_by_region[r]) THEN count ELSE Len(ips_by_region[r]))]

PickSeeds ==
    /\ pc = "pick_seed_node_ips"
    /\ seed_count' = SeedCount(options.cluster_size)
    /\ seed_nodes' = PickSeedNodeIps(node_ips, SeedCount(options.cluster_size))
    /\ pc' = "ensure_instance_profile"
    /\ UNCHANGED <<options, vpc_subnets, in_use, instance_state, ri, gen, taupage_amis, subnets,
                   node_ips, security_groups, alarm_topics, lv, calls, failure,
                   raised>>

\* launch_seed_nodes(options) comes first, launch_normal_nodes(options) next
NormalWaveFirst == "launch_normal_nodes"
FirstWave == "launch_seed_nodes"

EnsureInstanceProfile ==
    /\ pc = "ensure_instance_profile"
    /\ \/ /\ calls' = Append(calls, Call("ensure_instance_profile", "all", None, TRUE))
          /\ pc' = FirstWave
          /\ ri' = 1
          /\ lv' = FreshLv
          /\ UNCHANGED <<options, vpc_subnets, in_use, instance_state, gen, taupage_amis, subnets,
                         node_ips, security_groups, alarm_topics, seed_count,
                         seed_nodes, failure, raised>>
       \/ Fails("ensure_instance_profile", "all", None)

(***************************************************************************)
(* launch_seed_nodes and launch_normal_nodes.  lv.i is the index of        *)
(* enumerate(ips), lv.launched is seeds_launched.                          *)
(***************************************************************************)
Sleep(seconds) == Call("sleep", "all", [seconds |-> seconds], TRUE)

TotalSeedCount == seed_count * Len(options.regions)

LaunchSeedNodes ==
    /\ pc = "launch_seed_nodes"
    /\ IF ri > Len(KeysOf(seed_nodes))
       THEN /\ pc' = "launch_normal_nodes"
            /\ ri' = 1
            /\ lv' = FreshLv
       ELSE IF lv.i >= Len(seed_nodes[KeysOf(seed_nodes)[ri]])
       THEN /\ pc' = pc
            /\ ri' = ri + 1
            /\ lv' = [lv EXCEPT !.i = 0]
       ELSE /\ pc' = "create_volume"
            /\ ri' = ri
            /\ lv' = [lv EXCEPT !.phase = "seed"]
    /\ UNCHANGED <<options, vpc_subnets, in_use, instance_state, gen, taupage_amis, subnets,
                   node_ips, security_groups, alarm_topics, seed_count,
                   seed_nodes, calls, failure, raised>>

\* seeds_launched += 1, and the pause unless this was the last seed
SeedLaunched ==
    /\ pc = "launched"
    /\ lv.phase = "seed"
    /\ lv' = [lv EXCEPT !.i = lv.i + 1, !.launched = lv.launched + 1]
    /\ calls' = IF lv.launched + 1 < TotalSeedCount
                THEN Append(calls, Sleep(SeedPause))
                ELSE calls
    /\ pc' = "launch_seed_nodes"
    /\ UNCHANGED <<options, vpc_subnets, in_use, instance_state, ri, gen, taupage_amis, subnets,
                   node_ips, security_groups, alarm_topics, seed_count,
                   seed_nodes, failure, raised>>

\* if i >= options['seed_count']
NormalRoleAny(i) == TRUE
NormalRolePastNext(i) == i > seed_count
NormalRole(i) == i >= seed_count

LaunchNormalNodes ==
    /\ pc = "launch_normal_nodes"
    /\ IF ri > Len(KeysOf(node_ips))
       THEN /\ pc' = "print_success_message"
            /\ UNCHANGED <<ri, lv, calls>>
       ELSE IF lv.i >= Len(node_ips[KeysOf(node_ips)[ri]])
       THEN /\ ri' = ri + 1
            /\ lv' = [lv EXCEPT !.i = 0]
            /\ UNCHANGED <<pc, calls>>
       ELSE IF NormalRole(lv.i)
       THEN /\ calls' = Append(calls, Sleep(NormalPause))
            /\ pc' = "create_volume"
            /\ lv' = [lv EXCEPT !.phase = "normal"]
            /\ ri' = ri
       ELSE /\ lv' = [lv EXCEPT !.i = lv.i + 1]
            /\ UNCHANGED <<pc, ri, calls>>
    /\ UNCHANGED <<options, vpc_subnets, in_use, instance_state, gen, taupage_amis, subnets,
                   node_ips, security_groups, alarm_topics, seed_count,
                   seed_nodes, failure, raised>>

NormalLaunched ==
    /\ pc = "launched"
    /\ lv.phase = "normal"
    /\ lv' = [lv EXCEPT !.i = lv.i + 1]
    /\ pc' = "launch_normal_nodes"
    /\ UNCHANGED <<options, vpc_subnets, in_use, instance_state, ri, gen, taupage_amis, subnets,
                   node_ips, security_groups, alarm_topics, seed_count,
                   seed_nodes, calls, failure, raised>>

(***************************************************************************)
(* launch_instance(region, ip, ami, subnet, security_group_id, is_seed).   *)
(***************************************************************************)
LaunchRegion ==
    IF lv.phase = "seed" THEN KeysOf(seed_nodes)[ri] ELSE KeysOf(node_ips)[ri]

LaunchIp ==
    IF lv.phase = "seed" THEN seed_nodes[LaunchRegion][lv.i + 1]
    ELSE node_ips[LaunchRegion][lv.i + 1]

\* subnets[0] whatever the index
LaunchSubnetFirst == subnets[LaunchRegion][1]
\* subnets[i % len(subnets)]
LaunchSubnet ==
    LET subs == subnets[LaunchRegion]
    IN  subs[(lv.i % Len(subs)) + 1]

LaunchArgs ==
    [PrivateIpAddress |-> LaunchIp.PrivateIp,
     SubnetId |-> LaunchSubnet.SubnetId,
     SecurityGroupId |-> security_groups[LaunchRegion].GroupId,
     is_seed |-> (lv.phase = "seed")]

InstanceIds ==
    {calls[k].arg.InstanceId :
        k \in {j \in 1..Len(calls) : calls[j].op = "run_instances" /\ calls[j].ok}}

\* the same with a request that failed issued once more
LaunchStepRetried(at, op, arg, next) ==
    /\ pc = at
    /\ \/ /\ calls' = Append(calls, Call(op, LaunchRegion, arg, TRUE))
          /\ pc' = next
          /\ UNCHANGED <<options, vpc_subnets, in_use, instance_state, ri, gen, taupage_amis,
                         subnets, node_ips, security_groups, alarm_topics,
                         seed_count, seed_nodes, lv, failure, raised>>
       \/ IF calls[Len(calls)].ok
          THEN /\ calls' = Append(calls, Call(op, LaunchRegion, arg, FALSE))
               /\ UNCHANGED <<options, vpc_subnets, in_use, instance_state, pc, ri, gen,
                              taupage_amis, subnets, node_ips, security_groups,
                              alarm_topics, seed_count, seed_nodes, lv,
                              failure, raised>>
          ELSE Fails(op, LaunchRegion, arg)

\* one provider call of launch_instance: it returns, or its ClientError
\* leaves launch_instance and the launch loop
LaunchStep(at, op, arg, next) ==
    /\ pc = at
    /\ \/ /\ calls' = Append(calls, Call(op, LaunchRegion, arg, TRUE))
          /\ pc' = next
          /\ UNCHANGED <<options, vpc_subnets, in_use, instance_state, ri, gen, taupage_amis,
                         subnets, node_ips, security_groups, alarm_topics,
                         seed_count, seed_nodes, lv, failure, raised>>
       \/ Fails(op, LaunchRegion, arg)

CreateVolume ==
    LaunchStep("create_volume", "create_volume",
               [AvailabilityZone |-> LaunchSubnet.AvailabilityZone,
                PrivateIp |-> LaunchIp.PrivateIp],
               "tag_volume")

TagVolume ==
    LaunchStep("tag_volume", "create_tags", [PrivateIp |-> LaunchIp.PrivateIp],
               "run_instances")

RunInstances ==
    /\ pc = "run_instances"
    /\ LET id == Cardinality(InstanceIds) + 1
       IN  \/ /\ calls' = Append(calls, Call("run_instances", LaunchRegion,
                                   LaunchArgs @@ [InstanceId |-> id],
                                   TRUE))
              /\ lv' = [lv EXCEPT !.instance_id = id, !.polls = 0]
              /\ instance_state' = "pending"
              /\ pc' = "tag_instance"
              /\ UNCHANGED <<options, vpc_subnets, in_use, ri, gen, taupage_amis,
                             subnets, node_ips, security_groups, alarm_topics,
                             seed_count, seed_nodes, failure, raised>>
           \/ Fails("run_instances", LaunchRegion, LaunchArgs)

\* the same without the wait for the instance to initialize
TagInstanceUnpolled ==
    LaunchStep("tag_instance", "create_tags", [InstanceId |-> lv.instance_id],
               IF options.use_dmz THEN "associate_address"
               ELSE "create_auto_recovery_alarm")
TagInstance ==
    LaunchStep("tag_instance", "create_tags", [InstanceId |-> lv.instance_id],
               "describe_instance")

\* The provider: the instance launched last leaves the 'pending' state.
InstanceLeavesPending ==
    /\ pc \in {"tag_instance", "describe_instance"}
    /\ instance_state = "pending"
    /\ instance_state' = "running"
    /\ UNCHANGED <<options, vpc_subnets, in_use, pc, ri, gen, taupage_amis,
                   subnets, node_ips, security_groups, alarm_topics, seed_count,
                   seed_nodes, lv, calls, failure, raised>>

\* if instance['State']['Name'] != 'pending': break
LeavesPollTimedOut(state) == state # "pending" \/ lv.polls >= MaxPending
LeavesPoll(state) == state # "pending"

\* while True: describe_instances; break unless the state is 'pending';
\* time.sleep(5).  lv.polls counts the polls answered 'pending' modulo
\* MaxPending + 1.
DescribeInstance ==
    /\ pc = "describe_instance"
    /\ LET arg == [InstanceId |-> lv.instance_id]
           state == instance_state
       IN  \/ /\ ~LeavesPoll(state)
              /\ lv' = [lv EXCEPT !.polls = (lv.polls + 1) % (MaxPending + 1),
                                  !.slept = PollInterval]
              /\ pc' = pc
              /\ UNCHANGED <<options, vpc_subnets, in_use, instance_state, ri,
                             gen, taupage_amis, subnets, node_ips,
                             security_groups, alarm_topics, seed_count,
                             seed_nodes, calls, failure, raised>>
           \/ /\ LeavesPoll(state)
              /\ calls' = Append(calls, Call("describe_instances", LaunchRegion,
                                              arg @@ [state |-> state], TRUE))
              /\ pc' = IF options.use_dmz THEN "associate_address"
                       ELSE "create_auto_recovery_alarm"
              /\ lv' = [lv EXCEPT !.polls = 0, !.slept = 0]
              /\ UNCHANGED <<options, vpc_subnets, in_use, instance_state, ri,
                             gen, taupage_amis, subnets, node_ips,
                             security_groups, alarm_topics, seed_count,
                             seed_nodes, failure, raised>>
           \/ Fails("describe_instances", LaunchRegion, arg)

AssociateAddress ==
    LaunchStep("associate_address", "associate_address",
               [InstanceId |-> lv.instance_id, AllocationId |-> LaunchIp.AllocationId],
               "create_auto_recovery_alarm")

\* alarm_sns_topic_arn = None; if options['alarm_topics']:
\* alarm_sns_topic_arn = options['alarm_topics'][region]
AlarmSnsTopicArnAlways == <<LaunchRegion>>
AlarmSnsTopicArn == IF alarm_topics # {} THEN <<LaunchRegion>> ELSE <<>>

\* create_auto_recovery_alarm(region, cluster_name, instance_id, topic):
\* the recovery alarm bound to the region's topic is requested when alarms
\* are configured, and nothing is requested without a topic.
RecoveryAlarmRequested(alarm_sns_topic_arn) == alarm_sns_topic_arn # <<>>

CreateAutoRecoveryAlarm ==
    /\ pc = "create_auto_recovery_alarm"
    /\ LET arg == [InstanceId |-> lv.instance_id, topic |-> AlarmSnsTopicArn]
       IN  IF RecoveryAlarmRequested(AlarmSnsTopicArn)
           THEN \/ /\ calls' = Append(calls, Call("create_recovery_alarm",
                                                   LaunchRegion, arg, TRUE))
                   /\ pc' = "launched"
                   /\ UNCHANGED <<options, vpc_subnets, in_use, instance_state, ri, gen,
                                  taupage_amis, subnets, node_ips, security_groups,
                                  alarm_topics, seed_count, seed_nodes, lv,
                                  failure, raised>>
                \/ Fails("create_recovery_alarm", LaunchRegion, arg)
           ELSE /\ pc' = "launched"
                /\ UNCHANGED <<options, vpc_subnets, in_use, instance_state, ri, gen,
                               taupage_amis, subnets, node_ips, security_groups,
                               alarm_topics, seed_count, seed_nodes, lv, calls,
                               failure, raised>>

(***************************************************************************)
(* The end of create_cluster: the success message, or the except block.    *)
(***************************************************************************)
PrintSuccessMessage ==
    /\ pc = "print_success_message"
    /\ pc' = "returned"
    /\ UNCHANGED <<options, vpc_subnets, in_use, instance_state, ri, gen, taupage_amis, subnets,
                   node_ips, security_groups, alarm_topics, seed_count,
                   seed_nodes, lv, calls, failure, raised>>

\* The compensating call raises: its error leaves create_cluster.
CompensationFails(op, region, arg) ==
    /\ calls' = Append(calls, Call(op, region, arg, FALSE))
    /\ raised' = ClientError(op)
    /\ pc' = "raised"
    /\ UNCHANGED <<options, vpc_subnets, in_use, instance_state, ri, gen, taupage_amis, subnets,
                   node_ips, security_groups, alarm_topics, seed_count,
                   seed_nodes, lv, failure>>

\* for region, sg in security_groups.items(): delete_security_group
RollbackGroups ==
    /\ pc = "rollback_groups"
    /\ LET region == GroupKeys[ri]
           sg == security_groups[region]
       IN  \/ /\ calls' = Append(calls, Call("delete_security_group", region, sg, TRUE))
              /\ ri' = ri + 1
              /\ pc' = AfterGroup(ri + 1)
              /\ UNCHANGED <<options, vpc_subnets, in_use, instance_state, gen, taupage_amis,
                             subnets, node_ips, security_groups, alarm_topics,
                             seed_count, seed_nodes, lv, failure, raised>>
           \/ CompensationFails("delete_security_group", region, sg)

\* if options['use_dmz']: for region, ips in node_ips.items(): for ip in ips:
\* release_address.  lv.i counts the addresses released.
RollbackAddresses ==
    /\ pc = "rollback_addresses"
    /\ LET region == ReleaseList[lv.i + 1][1]
           ip == ReleaseList[lv.i + 1][2]
           arg == [AllocationId |-> ip.AllocationId]
       IN  \/ /\ calls' = Append(calls, Call("release_address", region, arg, TRUE))
              /\ lv' = [lv EXCEPT !.i = lv.i + 1]
              /\ pc' = IF lv.i + 1 < Len(ReleaseList) THEN pc ELSE "reraise"
              /\ UNCHANGED <<options, vpc_subnets, in_use, instance_state, ri, gen, taupage_amis,
                             subnets, node_ips, security_groups, alarm_topics,
                             seed_count, seed_nodes, failure, raised>>
           \/ CompensationFails("release_address", region, arg)

\* the bare raise that ends the except block
Reraise ==
    /\ pc = "reraise"
    /\ raised' = failure
    /\ pc' = "raised"
    /\ UNCHANGED <<options, vpc_subnets, in_use, instance_state, ri, gen, taupage_amis, subnets,
                   node_ips, security_groups, alarm_topics, seed_count,
                   seed_nodes, lv, calls, failure>>

\* the steps of create_cluster
Orchestrator ==
    \/ FindTaupageAmis
    \/ NextAlloc
    \/ SetupSns
    \/ SetupDnsRecords
    \/ ChangeResourceRecordSets
    \/ SecurityGroupsLoop
    \/ DescribeVpcs
    \/ CreateSecurityGroup
    \/ TagSecurityGroup
    \/ DescribeSecurityGroups
    \/ AuthorizeSecurityGroupIngress
    \/ PickSeeds
    \/ EnsureInstanceProfile
    \/ LaunchSeedNodes
    \/ SeedLaunched
    \/ LaunchNormalNodes
    \/ NormalLaunched
    \/ CreateVolume
    \/ TagVolume
    \/ RunInstances
    \/ TagInstance
    \/ DescribeInstance
    \/ AssociateAddress
    \/ CreateAutoRecoveryAlarm
    \/ PrintSuccessMessage
    \/ RollbackGroups
    \/ RollbackAddresses
    \/ Reraise

\* create_cluster and the provider
Next ==
    \/ Orchestrator
    \/ InstanceLeavesPending

Spec == Init /\ [][Next]_vars

\* The orchestrator is a sequential program: it always takes its next step
\* (time.sleep returns, a provider call returns or raises).  Nothing makes
\* the provider move an instance out of 'pending'.
SpecPoll == Init /\ [][Next]_vars /\ WF_vars(Orchestrator)


(***************************************************************************)
(* Properties.                                                             *)
(***************************************************************************)
Range(f) == {f[k] : k \in DOMAIN f}
Indices(op) == {k \in 1..Len(calls) : calls[k].op = op}
Returned(op) == {k \in Indices(op) : calls[k].ok}

\* The seed role: the first min(cluster_size, 3) entries of a region.
SeedRole(r) == {n \in 1..Len(node_ips[r]) : n <= MaxSeeds}

LaunchOf(k, r, ip, is_seed) ==
    /\ calls[k].op = "run_instances"
    /\ calls[k].region = r
    /\ calls[k].arg.PrivateIpAddress = ip.PrivateIp
    /\ calls[k].arg.is_seed = is_seed

\* C1: no launch request of a normal node is issued before the launch
\* requests of all seed nodes of all regions have been issued.
C1_SeedsBeforeNormal ==
    \A k \in Indices("run_instances") :
        ~calls[k].arg.is_seed =>
            \A r \in RegionSet : \A n \in SeedRole(r) :
                \E j \in 1..(k - 1) : LaunchOf(j, r, node_ips[r][n], TRUE)

C1_Witness ==
    /\ Len(KeysOf(node_ips)) = 2
    /\ \E k \in Indices("run_instances") : ~calls[k].arg.is_seed

\* C2: when a failure escaped the try block and create_cluster has ended,
\* exactly one delete_security_group call was issued for every recorded
\* group and, with use_dmz, exactly one release_address call for every
\* recorded address.
C2_OneCompensationEach ==
    pc = "raised" =>
        /\ \A r \in Range(GroupKeys) :
               Cardinality({k \in Indices("delete_security_group") :
                               calls[k].arg = security_groups[r]}) = 1
        /\ options.use_dmz =>
               \A x \in Range(ReleaseList) :
                   Cardinality({k \in Indices("release_address") :
                                   calls[k].arg.AllocationId = x[2].AllocationId}) = 1

\* C3: the error create_cluster ends with is the failure that escaped the
\* try block, and a run that had such a failure does not return.
C3_OriginalErrorReraised ==
    /\ pc = "raised" => raised = failure
    /\ pc = "returned" => failure = None

\* C4: the session state holds exactly the security groups and the
\* elastic addresses the run has created, at every point of the run.
CreatedGroups ==
    {<<calls[k].region, calls[k].arg>> : k \in Returned("create_security_group")}
RecordedGroups == {<<r, security_groups[r]>> : r \in Range(GroupKeys)}
AllocatedAddresses ==
    {<<calls[k].region, calls[k].arg.AllocationId>> : k \in Returned("allocate_address")}
RecordedAddresses ==
    IF options.use_dmz
    THEN {<<x[1], x[2].AllocationId>> : x \in Range(ReleaseList)}
    ELSE {}

C4_SessionStateExact ==
    /\ RecordedGroups = CreatedGroups
    /\ Cardinality(CreatedGroups) = Cardinality(Returned("create_security_group"))
    /\ RecordedAddresses = AllocatedAddresses
    /\ options.use_dmz => Len(ReleaseList) = Cardinality(AllocatedAddresses)

\* the tagging of a group just created fails, with addresses recorded
C4_Witness ==
    /\ pc = "rollback_groups"
    /\ failure = ClientError("create_tags")
    /\ calls[Len(calls)].op = "create_tags"
    /\ ~calls[Len(calls)].ok
    /\ security_groups[calls[Len(calls)].region] = calls[Len(calls)].arg
    /\ options.use_dmz
    /\ Len(ReleaseList) >= 2


(***************************************************************************)
(* Properties of the address allocation.                                   *)
(***************************************************************************)
PrivateIps(r) == [n \in 1..Len(node_ips[r]) |-> node_ips[r][n].PrivateIp]
AllocationDone == pc = "setup_sns"

\* the private-ip-address queries that returned
AddressQueries ==
    {k \in Returned("describe_instances") : "ip" \in DOMAIN calls[k].arg}
\* the addresses drawn in a region: every query issued, returned or not
Drawn(r) ==
    {calls[k].arg.ip :
        k \in {j \in Indices("describe_instances") :
                  calls[j].region = r /\ "ip" \in DOMAIN calls[j].arg}}

\* C5: once allocation has completed without error, the address sequence
\* of every requested region has length cluster_size.
C5_EveryRegionFilled ==
    AllocationDone =>
        \A r \in Requested(options) : Len(node_ips[r]) = options.cluster_size

Disjoint(c1, c2) == Range(IterHosts(c1)) \cap Range(IterHosts(c2)) = {}
PairwiseDisjoint(subs) ==
    \A a, b \in 1..Len(subs) : a # b => Disjoint(subs[a].CidrBlock, subs[b].CidrBlock)

C7_ConflictsSkipped ==
    /\ \A k \in AddressQueries :
          calls[k].arg.Reservations =>
              /\ calls[k].arg.ip \notin Range(PrivateIps(calls[k].region))
              /\ (pc = "allocate_address" /\ KeysOf(subnets)[ri] = calls[k].region)
                     => gen.ip # calls[k].arg.ip
              /\ k < Len(calls) =>
                    \/ /\ calls[k + 1].op = "describe_instances"
                       /\ calls[k + 1].region = calls[k].region
                       /\ "ip" \in DOMAIN calls[k + 1].arg
                       /\ calls[k + 1].arg.ip = calls[k].arg.ip + 1
                    \/ /\ failure.type = "IpAddressPoolDepletedException"
                       /\ calls[k + 1].op = "release_address"
    /\ (pc = "generate" /\ gen.started) =>
          gen.i = Len(node_ips[KeysOf(subnets)[ri]])

\* a reservation was reported and the next address of that subnet yielded,
\* in a region of several subnets
C7_Witness ==
    /\ AllocationDone
    /\ \E k \in AddressQueries :
          /\ calls[k].arg.Reservations
          /\ Len(subnets[calls[k].region]) >= 2
          /\ calls[k].arg.ip + 1 \in Range(PrivateIps(calls[k].region))

ReservedHead(cidr) ==
    {IterHosts(cidr)[p] : p \in {q \in DOMAIN IterHosts(cidr) : q <= ReservedSkip}}

C9_RoundRobin ==
    \A r \in RegionSet : \A n \in 1..Len(node_ips[r]) :
        node_ips[r][n].PrivateIp \in
            Range(IterHosts(subnets[r][((n - 1) % Len(subnets[r])) + 1].CidrBlock))

\* three subnets, four addresses, a reservation reported on the way
C9_Witness ==
    /\ AllocationDone
    /\ \E r \in Requested(options) :
          /\ Len(subnets[r]) = 3
          /\ Len(node_ips[r]) = 4
          /\ \E k \in AddressQueries :
                calls[k].region = r /\ calls[k].arg.Reservations


\* the region whose allocation was under way when the failure was raised
AllocatingRegion ==
    LET short == SelectSeq(KeysOf(subnets), LAMBDA r : Len(node_ips[r]) < options.cluster_size)
    IN  short[1]

AllocationPhase ==
    pc \in {"find_taupage_amis", "get_subnets", "allocate_ip_addresses",
            "generate", "allocate_address"}

Depleted == failure.type = "IpAddressPoolDepletedException"

\* C10: the pool-depleted error carries the CIDR block of a subnet of the
\* region under allocation whose host addresses are all used up (fewer
\* than the reserved head, or every address past it drawn) while the
\* quota is not filled; after it no security group is created and no
\* instance launched, and the run does not return; and no allocation that
\* went on past a region left that region short.
C10_PoolDepletedAborts ==
    /\ Depleted =>
          /\ \E s \in Range(subnets[AllocatingRegion]) :
                /\ s.CidrBlock = failure.cidr_block
                /\ \/ Len(IterHosts(s.CidrBlock)) < ReservedSkip
                   \/ Range(IterHosts(s.CidrBlock)) \ ReservedHead(s.CidrBlock)
                          \subseteq Drawn(AllocatingRegion)
          /\ Len(node_ips[AllocatingRegion]) < options.cluster_size
          /\ Indices("create_security_group") = {}
          /\ Indices("create_volume") = {}
          /\ Indices("run_instances") = {}
          /\ pc \in {"rollback_addresses", "reraise", "raised"}
          /\ pc = "raised" => raised # None
    /\ (failure = None /\ ~AllocationPhase) =>
          \A r \in Range(KeysOf(subnets)) : Len(node_ips[r]) = options.cluster_size

\* the pool runs out while drawing, after addresses were allocated, and
\* the run has ended with the compensations issued
C10_Witness ==
    /\ Depleted
    /\ gen.started
    /\ pc = "raised"
    /\ raised = failure
    /\ options.use_dmz
    /\ Indices("release_address") # {}

(***************************************************************************)
(* Properties of the seed selection and of the launch phases.              *)
(***************************************************************************)
\* C11: pick_seed_node_ips gives, for every region of node_ips, the first
\* min(cluster_size, 3) entries in their order; it leaves node_ips as it
\* was, and a second call on the same node_ips gives the same result.
C11_SeedSelection ==
    [][pc = "pick_seed_node_ips" =>
          /\ node_ips' = node_ips
          /\ \A r \in Range(KeysOf(node_ips)) :
                LET n == IF options.cluster_size < 3 THEN options.cluster_size ELSE 3
                IN  /\ Len(seed_nodes'[r]) = n
                    /\ \A k \in 1..n : seed_nodes'[r][k] = node_ips[r][k]
          /\ \A r \in RegionSet \ Range(KeysOf(node_ips)) : seed_nodes'[r] = <<>>
          /\ PickSeedNodeIps(node_ips', seed_count') = seed_nodes']_vars

\* the seeds are picked from a region holding more addresses than seeds
C11_Witness ==
    /\ pc = "ensure_instance_profile"
    /\ Len(KeysOf(node_ips)) = 2
    /\ \E r \in RegionSet :
          /\ Len(node_ips[r]) > Len(seed_nodes[r])
          /\ Len(seed_nodes[r]) = 3

SeedLaunches == {k \in Indices("run_instances") : calls[k].arg.is_seed}
NormalLaunches == {k \in Indices("run_instances") : ~calls[k].arg.is_seed}
Pauses == {k \in Indices("sleep") : calls[k].arg.seconds = 60}
Last(S) == CHOOSE k \in S : \A j \in S : j <= k

\* launch_seed_nodes has just returned
SeedPhaseOver == pc = "launch_normal_nodes" /\ ri = 1 /\ lv.i = 0

\* C12: a 60 second pause lies between every two consecutive seed launch
\* requests of the run, also across regions, and when launch_seed_nodes
\* returns no pause follows the last seed launch request.
C12_SeedPacing ==
    /\ \A k \in SeedLaunches : \A j \in SeedLaunches :
          k < j => \E p \in Pauses : k < p /\ p < j
    /\ (SeedPhaseOver /\ SeedLaunches # {}) =>
          \A p \in Pauses : p < Last(SeedLaunches)

\* the positions (from 1) of the entries of a region past its seeds
NonSeedPositions(r) ==
    {n \in 1..Len(node_ips[r]) :
        n > (IF options.cluster_size < 3 THEN options.cluster_size ELSE 3)}

NormalLaunchesOf(r, n) ==
    {k \in NormalLaunches : /\ calls[k].region = r
                            /\ calls[k].arg.PrivateIpAddress = node_ips[r][n].PrivateIp}

IsPause(k) == calls[k].op = "sleep" /\ calls[k].arg.seconds = 60

\* C13: when launch_normal_nodes has returned, every entry past the seeds
\* of every region had exactly one normal launch and no seed entry had
\* one; the 60 second pause is the call right before the first request
\* (create_volume) of every normal launch, the first of the run included;
\* and launch_normal_nodes pauses only on starting the launch of an entry
\* past the seeds, never on skipping a seed entry.
C13_NormalPacing ==
    /\ [](/\ pc \in {"print_success_message", "returned"} =>
                \A r \in Range(KeysOf(node_ips)) : \A n \in 1..Len(node_ips[r]) :
                    Cardinality(NormalLaunchesOf(r, n)) =
                        IF n \in NonSeedPositions(r) THEN 1 ELSE 0
          /\ \A k \in NormalLaunches :
                /\ k > 3
                /\ IsPause(k - 3)
                /\ calls[k - 2].op = "create_volume"
                /\ calls[k - 2].arg.PrivateIp = calls[k].arg.PrivateIpAddress
                /\ calls[k - 1].op = "create_tags")
    /\ [][(pc = "launch_normal_nodes" /\ calls' # calls) =>
              /\ calls' = Append(calls, Sleep(60))
              /\ pc' = "create_volume"
              /\ lv.i + 1 \in NonSeedPositions(KeysOf(node_ips)[ri])]_vars

\* a run of two regions with normal nodes in both has returned
C13_Witness ==
    /\ pc = "returned"
    /\ Len(KeysOf(node_ips)) = 2
    /\ \A r \in RegionSet : NonSeedPositions(r) # {}
    /\ Cardinality(NormalLaunches) = 2

\* C14: in the calls of a launch, create_volume and the tagging of the
\* volume come right before run_instances, for the same address; an
\* instance is tagged only after run_instances returned it; and
\* associate_address comes right after a describe_instances call that
\* returned a state other than 'pending' for the same instance.
C14_LaunchStepOrder ==
    /\ \A k \in Indices("run_instances") :
          /\ k > 2
          /\ calls[k - 2].op = "create_volume" /\ calls[k - 2].ok
          /\ calls[k - 2].arg.PrivateIp = calls[k].arg.PrivateIpAddress
          /\ calls[k - 1].op = "create_tags" /\ calls[k - 1].ok
          /\ calls[k - 1].arg = [PrivateIp |-> calls[k].arg.PrivateIpAddress]
    /\ \A k \in Indices("create_tags") :
          "InstanceId" \in DOMAIN calls[k].arg =>
              /\ k > 1
              /\ calls[k - 1].op = "run_instances" /\ calls[k - 1].ok
              /\ calls[k - 1].arg.InstanceId = calls[k].arg.InstanceId
    /\ \A k \in Indices("associate_address") :
          /\ options.use_dmz
          /\ k > 1
          /\ calls[k - 1].op = "describe_instances" /\ calls[k - 1].ok
          /\ "state" \in DOMAIN calls[k - 1].arg
          /\ calls[k - 1].arg.state # "pending"
          /\ calls[k - 1].arg.InstanceId = calls[k].arg.InstanceId

\* the second seed launch of a public-facing run has associated its address
C14_Witness ==
    /\ pc = "create_auto_recovery_alarm"
    /\ calls[Len(calls)].op = "associate_address"
    /\ calls[Len(calls)].ok
    /\ lv.launched = 1

\* an alert destination (sns_topic or sns_email) was configured: the topics
\* were set up
AlarmsConfigured == Returned("setup_sns_topics_for_alarm") # {}

FailedLaunchCalls ==
    {k \in 1..Len(calls) :
        /\ ~calls[k].ok
        /\ \/ calls[k].op \in {"create_volume", "run_instances",
                               "associate_address", "create_recovery_alarm"}
           \/ /\ calls[k].op = "create_tags"
              /\ DOMAIN calls[k].arg \cap {"PrivateIp", "InstanceId"} # {}
           \/ /\ calls[k].op = "describe_instances"
              /\ "InstanceId" \in DOMAIN calls[k].arg}

Compensations == {"delete_security_group", "release_address"}

\* C16: after a provider call of launch_instance has raised, every later
\* call of the run is a compensation (delete_security_group or
\* release_address): the failed request is not issued again and no
\* create_volume or run_instances follows; the run is in its except block
\* with that error caught, and it has issued a compensation by its end.
C16_LaunchErrorNotRetried ==
    \A k \in FailedLaunchCalls :
        /\ \A j \in (k + 1)..Len(calls) : calls[j].op \in Compensations
        /\ failure = ClientError(calls[k].op)
        /\ pc \in {"rollback_groups", "rollback_addresses", "reraise", "raised"}
        /\ pc # "rollback_groups" => Len(calls) > k
        /\ Len(calls) = k \/ calls[k + 1].op = "delete_security_group"

\* the launch of a later instance failed and the run has ended
C16_Witness ==
    /\ pc = "raised"
    /\ failure = ClientError("run_instances")
    /\ Returned("run_instances") # {}
    /\ \E k \in FailedLaunchCalls : Len(calls) >= k + 2

(***************************************************************************)
(* Properties of the failures.                                             *)
(***************************************************************************)
NoImage == failure = [type |-> "Exception", msg |-> "No Taupage AMI found"]
NoHostedZone == failure = [type |-> "Exception", msg |-> "Failed to find Hosted Zone"]

NothingCreated ==
    /\ Returned("allocate_address") = {}
    /\ \A r \in RegionSet : node_ips[r] = <<>>
    /\ Returned("setup_sns_topics_for_alarm") = {}
    /\ Returned("create_security_group") = {}
    /\ GroupKeys = <<>>

\* C17 as claimed: when no image is found or the hosted zone is not found,
\* the run has allocated no address, set up no alarm topic and created no
\* security group.
C17_NothingCreatedOnResolutionFailure ==
    (NoImage \/ NoHostedZone) => NothingCreated

\* C17 amended: when no image is found nothing has been created and no
\* compensation is issued; when the hosted zone is not found no security
\* group exists and none is deleted, but every region with subnets holds
\* its cluster_size addresses (elastic ones with use_dmz), the alarm topics
\* may be set up, and the calls after the failed lookup are release_address
\* calls only.
C17_ResolutionFailure ==
    /\ NoImage =>
          /\ NothingCreated
          /\ \A k \in 1..Len(calls) : calls[k].op = "images.filter"
          /\ pc \in {"reraise", "raised"}
    /\ NoHostedZone =>
          /\ Returned("create_security_group") = {}
          /\ GroupKeys = <<>>
          /\ Indices("delete_security_group") = {}
          /\ \A r \in Range(KeysOf(subnets)) : Len(node_ips[r]) = options.cluster_size
          /\ options.use_dmz =>
                Cardinality(Returned("allocate_address")) =
                    options.cluster_size * Len(KeysOf(subnets))
          /\ \A k \in Indices("list_hosted_zones_by_name") :
                \A j \in (k + 1)..Len(calls) : calls[j].op = "release_address"
          /\ pc \in {"rollback_addresses", "reraise", "raised"}

\* the hosted zone is not found in a public-facing run with alarm topics,
\* and the addresses of two regions have been released
C17_Witness ==
    /\ NoHostedZone
    /\ pc = "raised"
    /\ options.use_dmz
    /\ Returned("setup_sns_topics_for_alarm") # {}
    /\ Len(KeysOf(node_ips)) = 2
    /\ Cardinality(Returned("release_address")) >= 2

(***************************************************************************)
(* Properties of the security groups.                                      *)
(***************************************************************************)
\* the public addresses the provider has allocated up to call k
PublicIpsBefore(k) ==
    {calls[j].arg.PublicIp : j \in {i \in Returned("allocate_address") : i < k}}

\* C18: with use_dmz, the rules of every region's security group permit
\* port 7001 from the public address of every node of every region: the
\* cluster_size addresses of every region with subnets are allocated
\* before the first rules are built, none after.  With or without
\* use_dmz the rules permit the group's own members.
C18_FullMeshIngress ==
    \A k \in Indices("authorize_security_group_ingress") :
        /\ calls[k].arg.self = security_groups[calls[k].region].GroupId
        /\ options.use_dmz =>
              /\ calls[k].arg.port7001 = PublicIpsBefore(k)
              /\ PublicIpsBefore(k) = PublicIpsBefore(Len(calls) + 1)
              /\ Cardinality(calls[k].arg.port7001) =
                     options.cluster_size * Len(KeysOf(subnets))
              /\ \A r \in Range(KeysOf(node_ips)) : \A n \in 1..Len(node_ips[r]) :
                     node_ips[r][n].PublicIp \in calls[k].arg.port7001

\* the groups of two regions of a public-facing run have their rules
C18_Witness ==
    /\ options.use_dmz
    /\ Cardinality(Returned("authorize_security_group_ingress")) = 2
    /\ options.cluster_size >= 2

FailedCalls == {k \in 1..Len(calls) : ~calls[k].ok}

\* C19: a failed lookup of the bastion group is not the failure of the
\* run: the next call authorizes the ingress rules of the same region's
\* group, with the rule for the group's own members, with the port 7001
\* rules when use_dmz and without the SSH rule, and after it comes the
\* next region or the instance profile.  Every other provider call that
\* fails is propagated: in the try block it is the failure caught, in the
\* except block it is what create_cluster ends with.
C19_BastionAbsenceSwallowed ==
    \A k \in FailedCalls :
        IF calls[k].op = "describe_security_groups"
        THEN /\ failure # ClientError("describe_security_groups")
             /\ k = Len(calls) =>
                   /\ pc = "authorize_security_group_ingress"
                   /\ failure = None
                   /\ ~lv.odd
             /\ Len(calls) > k =>
                   /\ calls[k + 1].op = "authorize_security_group_ingress"
                   /\ calls[k + 1].region = calls[k].region
                   /\ ~calls[k + 1].arg.ssh
                   /\ calls[k + 1].arg.self = security_groups[calls[k].region].GroupId
                   /\ options.use_dmz => calls[k + 1].arg.port7001 # {}
             /\ (Len(calls) > k + 1 /\ calls[k + 1].ok) =>
                   \/ /\ calls[k + 2].op = "describe_vpcs"
                      /\ calls[k + 2].region # calls[k].region
                   \/ calls[k + 2].op = "ensure_instance_profile"
        ELSE IF calls[k].op \in Compensations
        THEN pc = "raised" /\ raised = ClientError(calls[k].op)
        ELSE failure = ClientError(calls[k].op)

\* the bastion group is absent in the first of two regions, and the run
\* has returned
C19_Witness ==
    /\ pc = "returned"
    /\ Len(KeysOf(node_ips)) = 2
    /\ \E k \in FailedCalls : calls[k].region = KeysOf(node_ips)[1]
    /\ \E k \in Returned("authorize_security_group_ingress") : calls[k].arg.ssh

(***************************************************************************)
(* Properties of the readiness poll.                                       *)
(***************************************************************************)
Polling == pc = "describe_instance"

\* C20: the poll loop has no timeout.  Once the provider holds the
\* instance in a state other than 'pending', the poll loop is left: the
\* launch goes on with associate_address or the alarm (or the call has
\* raised).  A poll answered 'pending' keeps the orchestrator in the loop
\* with no call issued, no launch started and no failure caught, however
\* many polls came before; and while the instance is 'pending' the next
\* poll is always there to take.
C20_PollWithoutTimeout ==
    /\ (Polling /\ instance_state # "pending") ~>
           (pc \in {"associate_address", "create_auto_recovery_alarm"} \/ failure # None)
    /\ [][(Polling /\ instance_state = "pending" /\ instance_state' = "pending"
              /\ failure' = None) =>
             (Polling' /\ calls' = calls /\ failure' = failure
                 /\ lv'.instance_id = lv.instance_id /\ raised' = raised)]_vars
    /\ [](Polling /\ instance_state = "pending" =>
             ENABLED <<DescribeInstance /\ Polling' /\ failure' = None>>_vars)

\* the provider has moved the instance out of 'pending' after a poll was
\* answered 'pending'
C20_Witness ==
    /\ Polling
    /\ lv.polls > 0
    /\ lv.slept = PollInterval
    /\ instance_state = "running"
    /\ lv.launched >= 1

(***************************************************************************)
(* Properties of the order of the compensations and of the launches.       *)
(***************************************************************************)
\* the n-th smallest element of a set of call positions
Nth(S, n) == CHOOSE k \in S : Cardinality({j \in S : j < k}) = n - 1

\* C21: the n-th delete_security_group call names the n-th security group
\* the run created, in its region; the n-th release_address call names the
\* n-th address the run allocated (regions in the order of allocation, the
\* addresses of a region in the order recorded), in its region; and every
\* delete_security_group call comes before the first release_address call.
C21_CompensationOrder ==
    /\ \A n \in 1..Cardinality(Indices("delete_security_group")) :
          LET d == Nth(Indices("delete_security_group"), n)
              c == Nth(Returned("create_security_group"), n)
          IN  /\ n <= Cardinality(Returned("create_security_group"))
              /\ calls[d].arg.GroupId = calls[c].arg.GroupId
              /\ calls[d].region = calls[c].region
              /\ c < d
    /\ \A n \in 1..Cardinality(Indices("release_address")) :
          LET r == Nth(Indices("release_address"), n)
              a == Nth(Returned("allocate_address"), n)
          IN  /\ n <= Cardinality(Returned("allocate_address"))
              /\ calls[r].arg.AllocationId = calls[a].arg.AllocationId
              /\ calls[r].region = calls[a].region
              /\ a < r
    /\ \A d \in Indices("delete_security_group") :
          \A r \in Indices("release_address") : d < r
    /\ LET keys == KeysOf(node_ips)
       IN  \A n \in 1..Cardinality(Indices("release_address")) :
               \A m \in 1..(n - 1) :
                   LET x == calls[Nth(Indices("release_address"), m)]
                       y == calls[Nth(Indices("release_address"), n)]
                   IN  \E i \in 1..Len(keys) : \E j \in i..Len(keys) :
                           keys[i] = x.region /\ keys[j] = y.region

\* two groups were deleted and the addresses of two regions released
C21_Witness ==
    /\ pc = "raised"
    /\ Cardinality(Returned("delete_security_group")) = 2
    /\ Cardinality(Returned("release_address")) >= 4
    /\ \E r \in Returned("release_address") : calls[r].region = KeysOf(node_ips)[2]

\* the positions (from 1) of an address in the sequence of a region
PositionsOf(r, ip) == {n \in 1..Len(node_ips[r]) : node_ips[r][n].PrivateIp = ip}

\* the subnet the allocator draws entry n of a region from: i % len(subnets)
\* with i = n - 1
AllocatorSubnet(r, n) == subnets[r][((n - 1) % Len(subnets[r])) + 1]

\* C22: every run_instances request, of a seed or of a normal node, names
\* the subnet number (n - 1) mod S of its region for the entry n it
\* launches, and the private address of that entry is a host address of
\* that subnet's CIDR block.
C22_LaunchedIntoOwnSubnet ==
    \A k \in Indices("run_instances") :
        LET r == calls[k].region
            ip == calls[k].arg.PrivateIpAddress
        IN  /\ PositionsOf(r, ip) # {}
            /\ \A n \in PositionsOf(r, ip) :
                  /\ calls[k].arg.SubnetId = AllocatorSubnet(r, n).SubnetId
                  /\ ip \in Range(IterHosts(AllocatorSubnet(r, n).CidrBlock))
                  /\ calls[k].arg.is_seed <=> n <= seed_count
            /\ calls[k - 2].arg.AvailabilityZone =
                  (CHOOSE s \in Range(subnets[r]) :
                      s.SubnetId = calls[k].arg.SubnetId).AvailabilityZone

\* a seed and a normal node were launched into the second of two subnets
C22_Witness ==
    \E r \in RegionSet :
        /\ Len(subnets[r]) = 2
        /\ \E k \in Returned("run_instances") :
              /\ calls[k].region = r
              /\ calls[k].arg.is_seed
              /\ calls[k].arg.SubnetId = subnets[r][2].SubnetId
        /\ \E k \in Returned("run_instances") :
              /\ calls[k].region = r
              /\ ~calls[k].arg.is_seed
              /\ calls[k].arg.SubnetId = subnets[r][2].SubnetId

LaunchesOf(r, n) ==
    {k \in Indices("run_instances") :
        /\ calls[k].region = r
        /\ calls[k].arg.PrivateIpAddress = node_ips[r][n].PrivateIp}

RECURSIVE TotalLen(_, _)
TotalLen(keys, d) ==
    IF keys = <<>> THEN 0 ELSE Len(d[Head(keys)]) + TotalLen(Tail(keys), d)

\* C23: when create_cluster has printed the success message, every entry
\* of node_ips has exactly one run_instances request, which returned: as
\* a seed for the first seed_count entries of a region, as a normal node
\* for the others; and the run issued no other run_instances request.
C23_EveryEntryLaunchedOnce ==
    pc = "returned" =>
        /\ \A r \in Range(KeysOf(node_ips)) : \A n \in 1..Len(node_ips[r]) :
              /\ Cardinality(LaunchesOf(r, n)) = 1
              /\ \A k \in LaunchesOf(r, n) :
                    /\ calls[k].ok
                    /\ calls[k].arg.is_seed <=> n <= seed_count
              /\ Cardinality(LaunchesOf(r, n) \cap SeedLaunches)
                    + Cardinality(LaunchesOf(r, n) \cap NormalLaunches) = 1
        /\ Cardinality(Indices("run_instances")) = TotalLen(KeysOf(node_ips), node_ips)
        /\ Cardinality(InstanceIds) = TotalLen(KeysOf(node_ips), node_ips)

\* a public-facing run of two regions with four nodes each has returned
C23_Witness ==
    /\ pc = "returned"
    /\ options.use_dmz
    /\ Cardinality(SeedLaunches) = 6
    /\ Cardinality(NormalLaunches) = 2
    /\ Cardinality(InstanceIds) = 8

=============================================================================
